---- MODULE Spec2Model ----
(***************************************************************************)
(* AEMET OpenData client: the REST call wrapper and the nearest lookups of *)
(* aemet_opendata/interface.py (class AEMET), and the station record of    *)
(* aemet_opendata/station.py (class Station).                              *)
(*                                                                         *)
(* The library is synchronous and single threaded.  Every method is one    *)
(* atomic action taken while no call is in progress (pc = "idle"); the     *)
(* action leaves the call's inputs, result and exception in op, args, ret  *)
(* and exc (pc = "returned") and Return hands control back to the caller.  *)
(* Python values are tagged records [t |-> tag, v |-> payload].            *)
(***************************************************************************)
EXTENDS Integers, Sequences, FiniteSets

VARIABLES pc, op, args, ret, exc, dist_hp, st, now, seenMax, allMax, direct

vars == <<pc, op, args, ret, exc, dist_hp, st, now, seenMax, allMax, direct>>

callVars == <<pc, op, args, ret, exc>>

aemetVars == <<dist_hp>>

stationVars == <<st, now, seenMax, allMax, direct>>

(***************************************************************************)
(* Bounds of the model.                                                    *)
(***************************************************************************)
\* longest candidate list a data request returns
MaxCands == 3
\* latitudes of the grid are 0 .. MaxLat
MaxLat == 1
\* longest sample list handed to update_samples when only update_samples is called
MaxSamples == 3
\* longest sample list handed to update_samples in the life of a station
MaxBatch == 2
\* sample timestamps are 0 .. MaxStamp; the clock runs over 0 .. MaxStamp + 1
MaxStamp == 2

Abs(x) == IF x < 0 THEN -x ELSE x

Max(a, b) == IF a >= b THEN a ELSE b

\* all sequences over S of length at most n
SeqUpTo(S, n) == UNION {[1..k -> S] : k \in 0..n}

(***************************************************************************)
(* Python values.                                                          *)
(***************************************************************************)
None == [t |-> "None", v |-> 0]

NoException == "none"

\* a JSON array
List(items) == [t |-> "list", v |-> items]

\* the JSON object of a metadata response; has_datos: the "datos" key is there
Dict(has_datos) == [t |-> "dict", v |-> has_datos]

\* interface.py 91-94: {ATTR_RESPONSE: json_response, ATTR_DATA: data}
Full(json_response, data) == [t |-> "full", v |-> [response |-> json_response, data |-> data]]

\* bool(x) of Python for the values above
Truthy(x) == CASE x.t = "None" -> FALSE
               [] x.t = "list" -> Len(x.v) > 0
               [] OTHER -> TRUE

(***************************************************************************)
(* The data source: what session.request answers.  A response is an        *)
(* exception of requests, or a status code with a body (text "" or JSON).  *)
(***************************************************************************)
EmptyBody == [t |-> "empty", v |-> 0]

RequestException == [raised |-> TRUE, status_code |-> 0, body |-> EmptyBody]

Response(status_code, body) == [raised |-> FALSE, status_code |-> status_code, body |-> body]

\* the three ways a request fails: network error, non-success status, empty body
FailedResponses == {RequestException, Response(404, Dict(FALSE)), Response(200, EmptyBody)}

IsFailed(r) == r.raised \/ r.status_code # 200 \/ r.body = EmptyBody

(***************************************************************************)
(* interface.py 99-127  AEMET.api_data                                     *)
(***************************************************************************)
api_data(r) ==
    IF r.raised THEN None
    ELSE IF r.status_code # 200 THEN None
    ELSE IF r.body = EmptyBody THEN None
    ELSE r.body

(***************************************************************************)
(* interface.py 53-96  AEMET.api_call.  resps are the responses of the     *)
(* data source in the order requested: resps[1] answers the call itself,   *)
(* resps[2] the request api_data makes for the "datos" URL.                *)
(***************************************************************************)
\* interface.py 88: fetch_data and AEMET_ATTR_DATA in json_response
WantsData(fetch_data, json_response) ==
    fetch_data /\ json_response.t = "dict" /\ json_response.v

\* interface.py 90-94: the metadata is wrapped only when the data is truthy
WrapData(json_response, data) ==
    IF Truthy(data) THEN Full(json_response, data) ELSE json_response

api_call(resps, fetch_data) ==
    LET r == resps[1] IN
    IF r.raised THEN None
    ELSE IF r.status_code # 200 THEN None
    ELSE IF r.body = EmptyBody THEN None
    ELSE IF WantsData(fetch_data, r.body)
         THEN WrapData(r.body, api_data(resps[2]))
         ELSE r.body

(***************************************************************************)
(* Coordinates and distances.  Points lie on a grid whose step is 20 km;   *)
(* geopy's two distance models are represented by two metrics on the grid  *)
(* that agree along a parallel and differ along a meridian.                *)
(***************************************************************************)
Lats == 0..MaxLat

Lons == {-1, 0}

Points == {<<la, lo>> : la \in Lats, lo \in Lons}

\* geopy.distance.great_circle(start, end).km
great_circle(start, end) == 20 * (Abs(start[1] - end[1]) + Abs(start[2] - end[2]))

\* geopy.distance.geodesic(start, end).km
geodesic(start, end) == great_circle(start, end) - Abs(start[1] - end[1])

\* interface.py 136-142  AEMET.calc_distance(start, end).km
calc_distance(hp, start, end) == IF hp THEN geodesic(start, end) ELSE great_circle(start, end)

\* set in const.py, which is not among the sources
API_MIN_STATION_DISTANCE_KM == 40

API_MIN_TOWN_DISTANCE_KM == 20

(***************************************************************************)
(* The inventories the service publishes.  A candidate's id is its place   *)
(* in the list, which stands for the identity of the Python object.        *)
(***************************************************************************)
PlaceLists == SeqUpTo(Points, MaxCands)

\* maestro/municipios: latitud_dec, longitud_dec
Towns(places) ==
    [i \in 1..Len(places) |-> [id |-> i, latitud_dec |-> places[i][1], longitud_dec |-> places[i][2]]]

\* observacion/convencional/todas: lat, lon
ConventionalStations(places) ==
    [i \in 1..Len(places) |-> [id |-> i, lat |-> places[i][1], lon |-> places[i][2]]]

\* a coordinate of the climatological inventory: magnitude and hemisphere letter
Sexagesimal(x, pos, neg) == [mag |-> Abs(x), hem |-> IF x < 0 THEN neg ELSE pos]

\* valores/climatologicos/inventarioestaciones/todasestaciones: latitud, longitud
ClimatologicalStations(places) ==
    [i \in 1..Len(places) |-> [id |-> i,
                               latitud |-> Sexagesimal(places[i][1], "N", "S"),
                               longitud |-> Sexagesimal(places[i][2], "E", "W")]]

\* helpers.parse_station_coordinates followed by geopy.point.Point (interface.py 173-178)
parse_station_coordinates(latitud, longitud) ==
    << IF latitud.hem = "S" THEN -latitud.mag ELSE latitud.mag,
       IF longitud.hem = "W" THEN -longitud.mag ELSE longitud.mag >>

TownCoords(cur_town) == <<cur_town.latitud_dec, cur_town.longitud_dec>>

ConventionalCoords(cur_station) == <<cur_station.lat, cur_station.lon>>

ClimatologicalCoords(cur_station) == parse_station_coordinates(cur_station.latitud, cur_station.longitud)

(***************************************************************************)
(* The linear scan shared by the three lookups (interface.py 170-185,      *)
(* 210-223, 270-283).                                                      *)
(***************************************************************************)
\* variant of Closer with a non-strict comparison
CloserOrEqual(cur_distance, distance) == cur_distance <= distance

\* interface.py 180, 218, 278: if cur_distance < distance
Closer(cur_distance, distance) == cur_distance < distance

\* one iteration of the loop body
ScanStep(acc, cur, cur_distance) ==
    IF Closer(cur_distance, acc.distance)
    THEN [distance |-> cur_distance, found |-> [t |-> "value", v |-> cur]]
    ELSE acc

RECURSIVE ScanFrom(_, _, _, _)
ScanFrom(i, cands, dists, acc) ==
    IF i > Len(cands) THEN acc
    ELSE ScanFrom(i + 1, cands, dists, ScanStep(acc, cands[i], dists[i]))

\* variant of ScanStart whose bound lies one km beyond the threshold
ScanStartLoose(threshold) == [distance |-> threshold + 1, found |-> None]

\* interface.py 170-171, 210-211, 270-271: station = None; distance = API_MIN_..._KM
ScanStart(threshold) == [distance |-> threshold, found |-> None]

\* the value the lookup returns for the candidate list cands with distances dists
Scan(cands, dists, threshold) == ScanFrom(1, cands, dists, ScanStart(threshold)).found

(***************************************************************************)
(* What Python does with the value api_call returned.                      *)
(***************************************************************************)
\* stations[ATTR_DATA] (interface.py 172, 212): the exception it raises, if any
SubscriptError(stations) ==
    CASE stations.t = "None" -> "TypeError"
      [] stations.t = "dict" -> "KeyError"
      [] stations.t = "list" -> "TypeError"
      [] OTHER -> NoException

\* for cur_town in towns: cur_town[...] (interface.py 272-275): the exception raised, if any
IterateError(towns) ==
    CASE towns.t = "None" -> "TypeError"
      [] towns.t = "dict" -> "TypeError"
      [] towns.t = "full" -> "TypeError"
      [] OTHER -> NoException

\* cur_distance of every iteration, coords being cur_coords of every iteration
Distances(hp, search_coords, coords) ==
    [i \in 1..Len(coords) |-> calc_distance(hp, search_coords, coords[i])]

\* interface.py 266-283  AEMET.get_town_by_coordinates
get_town_by_coordinates(hp, search_coords, resps) ==
    LET towns == api_call(resps, FALSE) IN
    IF IterateError(towns) # NoException
    THEN [ret |-> None, exc |-> IterateError(towns)]
    ELSE [ret |-> Scan(towns.v, Distances(hp, search_coords,
                                          [i \in 1..Len(towns.v) |-> TownCoords(towns.v[i])]),
                       API_MIN_TOWN_DISTANCE_KM),
          exc |-> NoException]

\* interface.py 204-223  AEMET.get_conventional_observation_station_by_coordinates
get_conventional_observation_station_by_coordinates(hp, search_coords, resps) ==
    LET stations == api_call(resps, TRUE) IN
    IF SubscriptError(stations) # NoException
    THEN [ret |-> None, exc |-> SubscriptError(stations)]
    ELSE LET cands == stations.v.data.v IN
         [ret |-> Scan(cands, Distances(hp, search_coords,
                                        [i \in 1..Len(cands) |-> ConventionalCoords(cands[i])]),
                       API_MIN_STATION_DISTANCE_KM),
          exc |-> NoException]

\* interface.py 164-185  AEMET.get_climatological_values_station_by_coordinates
get_climatological_values_station_by_coordinates(hp, search_coords, resps) ==
    LET stations == api_call(resps, TRUE) IN
    IF SubscriptError(stations) # NoException
    THEN [ret |-> None, exc |-> SubscriptError(stations)]
    ELSE LET cands == stations.v.data.v IN
         [ret |-> Scan(cands, Distances(hp, search_coords,
                                        [i \in 1..Len(cands) |-> ClimatologicalCoords(cands[i])]),
                       API_MIN_STATION_DISTANCE_KM),
          exc |-> NoException]

(***************************************************************************)
(* The answers the data source can give to each kind of call.              *)
(***************************************************************************)
\* to a call without fetch_data (maestro/municipios): one request
TownResponses ==
    {<<r>> : r \in FailedResponses \cup {Response(200, Dict(FALSE))}}
    \cup {<<Response(200, List(Towns(l)))>> : l \in PlaceLists}

\* to a call with fetch_data: the metadata request, then the data request
StationResponses(inventories) ==
    {<<r>> : r \in FailedResponses \cup {Response(200, Dict(FALSE))}}
    \cup {<<Response(200, Dict(TRUE)), r2>> :
              r2 \in FailedResponses \cup {Response(200, List(l)) : l \in inventories}}

ConventionalInventories == {ConventionalStations(l) : l \in PlaceLists}

ClimatologicalInventories == {ClimatologicalStations(l) : l \in PlaceLists}

(***************************************************************************)
(* Operations of AEMET.                                                    *)
(***************************************************************************)
\* the call record an operation leaves
Returns(name, a, result) ==
    /\ pc' = "returned"
    /\ op' = name
    /\ args' = a
    /\ ret' = result.ret
    /\ exc' = result.exc

\* a public wrapper of api_call (get_towns, get_conventional_observation_stations, ...)
ApiCall ==
    /\ pc = "idle"
    /\ \E fetch_data \in BOOLEAN :
       \E resps \in TownResponses \cup StationResponses(ConventionalInventories) :
        /\ Returns("api_call", [fetch_data |-> fetch_data, resps |-> resps],
                   [ret |-> api_call(resps, fetch_data), exc |-> NoException])
        /\ UNCHANGED <<aemetVars, stationVars>>

\* interface.py 145-148  AEMET.distance_high_precision
DistanceHighPrecision ==
    /\ pc = "idle"
    /\ \E b \in BOOLEAN :
        /\ Returns("distance_high_precision", [dist_hp |-> b],
                   [ret |-> [t |-> "bool", v |-> b], exc |-> NoException])
        /\ dist_hp' = b
        /\ UNCHANGED stationVars

GetTownByCoordinates ==
    /\ pc = "idle"
    /\ \E search_coords \in Points : \E resps \in TownResponses :
        /\ Returns("get_town_by_coordinates",
                   [search_coords |-> search_coords, resps |-> resps],
                   get_town_by_coordinates(dist_hp, search_coords, resps))
        /\ UNCHANGED <<aemetVars, stationVars>>

GetConventionalObservationStationByCoordinates ==
    /\ pc = "idle"
    /\ \E search_coords \in Points : \E resps \in StationResponses(ConventionalInventories) :
        /\ Returns("get_conventional_observation_station_by_coordinates",
                   [search_coords |-> search_coords, resps |-> resps],
                   get_conventional_observation_station_by_coordinates(dist_hp, search_coords, resps))
        /\ UNCHANGED <<aemetVars, stationVars>>

GetClimatologicalValuesStationByCoordinates ==
    /\ pc = "idle"
    /\ \E search_coords \in Points : \E resps \in StationResponses(ClimatologicalInventories) :
        /\ Returns("get_climatological_values_station_by_coordinates",
                   [search_coords |-> search_coords, resps |-> resps],
                   get_climatological_values_station_by_coordinates(dist_hp, search_coords, resps))
        /\ UNCHANGED <<aemetVars, stationVars>>

\* control is back with the caller: the call's inputs and result are gone
Return ==
    /\ pc = "returned"
    /\ pc' = "idle"
    /\ op' = "none"
    /\ args' = <<>>
    /\ ret' = None
    /\ exc' = NoException
    /\ UNCHANGED <<aemetVars, stationVars>>

(***************************************************************************)
(* station.py: the data of a sample.  A sample is a dict (a function from  *)
(* the keys it holds); a value is a number [t |-> "num"], a timestamp the  *)
(* API format parses [t |-> "ts"] or some other string [t |-> "str"].      *)
(***************************************************************************)
AEMET_ATTR_STATION_DATE == "fint"

AEMET_ATTR_STATION_DEWPOINT == "tpr"

AEMET_ATTR_STATION_HUMIDITY == "hr"

AEMET_ATTR_STATION_PRECIPITATION == "prec"

AEMET_ATTR_STATION_PRESSURE == "pres"

AEMET_ATTR_STATION_PRESSURE_SEA == "pres_nmar"

AEMET_ATTR_STATION_TEMPERATURE == "ta"

AEMET_ATTR_STATION_TEMPERATURE_MAX == "tamax"

AEMET_ATTR_STATION_TEMPERATURE_MIN == "tamin"

AEMET_ATTR_STATION_WIND_DIRECTION == "dv"

AEMET_ATTR_STATION_WIND_SPEED == "vv"

AEMET_ATTR_STATION_WIND_SPEED_MAX == "vmax"

Num(n) == [t |-> "num", v |-> n]

Timestamp(n) == [t |-> "ts", v |-> n]

Garbage == [t |-> "str", v |-> 0]

\* the staleness window, in the clock's unit; set in const.py, which is not among the sources
STATION_MAX_DELTA == 2

Stamps == 0..MaxStamp

Clock == 0..(MaxStamp + 1)

\* helpers.timezone_from_coords (station.py 83)
timezone_from_coords(coords) == IF coords[2] < -10 THEN "Atlantic/Canary" ELSE "Europe/Madrid"

\* helpers.parse_api_timestamp (station.py 166, 188): an aware datetime in UTC
parse_api_timestamp(x) == [t |-> x.v, tz |-> "UTC"]

\* datetime.astimezone: the same instant, shown in another zone
astimezone(dt, tz) == [dt EXCEPT !.tz = tz]

(***************************************************************************)
(* station.py 164-181  Station.update_sample: eleven assignments in order, *)
(* each reading one key of the sample; the first read that fails raises    *)
(* and the assignments before it stay done.                                *)
(***************************************************************************)
SampleAttrs ==
    << "datetime", "dew_point", "humidity", "precipitation", "pressure", "temp",
       "temp_max", "temp_min", "wind_direction", "wind_speed", "wind_speed_max" >>

\* the key assignment i reads
ReadKey(i, data) ==
    CASE i = 1 -> AEMET_ATTR_STATION_DATE
      [] i = 2 -> AEMET_ATTR_STATION_DEWPOINT
      [] i = 3 -> AEMET_ATTR_STATION_HUMIDITY
      [] i = 4 -> AEMET_ATTR_STATION_PRECIPITATION
      [] i = 5 -> IF AEMET_ATTR_STATION_PRESSURE_SEA \in DOMAIN data
                  THEN AEMET_ATTR_STATION_PRESSURE_SEA
                  ELSE AEMET_ATTR_STATION_PRESSURE
      [] i = 6 -> AEMET_ATTR_STATION_TEMPERATURE
      [] i = 7 -> AEMET_ATTR_STATION_TEMPERATURE_MAX
      [] i = 8 -> AEMET_ATTR_STATION_TEMPERATURE_MIN
      [] i = 9 -> AEMET_ATTR_STATION_WIND_DIRECTION
      [] i = 10 -> AEMET_ATTR_STATION_WIND_SPEED
      [] OTHER -> AEMET_ATTR_STATION_WIND_SPEED_MAX

\* the exception data[key], then parse_api_timestamp or float, raises
ReadError(i, data) ==
    LET key == ReadKey(i, data) IN
    IF key \notin DOMAIN data THEN "KeyError"
    ELSE IF data[key].t = (IF i = 1 THEN "ts" ELSE "num") THEN NoException
    ELSE "ValueError"

\* the value assignment i stores
ReadValue(i, data, zoneinfo) ==
    IF i = 1 THEN astimezone(parse_api_timestamp(data[ReadKey(i, data)]), zoneinfo)
    ELSE data[ReadKey(i, data)].v

\* the first assignment from i on that raises, 0 when none does
RECURSIVE FirstErrorFrom(_, _)
FirstErrorFrom(i, data) ==
    IF i > Len(SampleAttrs) THEN 0
    ELSE IF ReadError(i, data) # NoException THEN i
    ELSE FirstErrorFrom(i + 1, data)

FirstError(data) == FirstErrorFrom(1, data)

\* the record after assignments i .. n
RECURSIVE AssignedFrom(_, _, _, _)
AssignedFrom(i, self, data, n) ==
    IF i > n THEN self
    ELSE AssignedFrom(i + 1, [self EXCEPT ![SampleAttrs[i]] = ReadValue(i, data, self.zoneinfo)],
                      data, n)

\* the record after the first n assignments
Assigned(self, data, n) == AssignedFrom(1, self, data, n)

\* variant of update_sample that also takes the station id from the sample
update_sample_with_id(self, data) ==
    LET k == FirstError(data) IN
    [self |-> [Assigned(self, data, IF k = 0 THEN Len(SampleAttrs) ELSE k - 1)
                  EXCEPT !.id = IF k = 0 THEN data.idema ELSE @],
     exc |-> IF k = 0 THEN NoException ELSE ReadError(k, data)]

update_sample(self, data) ==
    LET k == FirstError(data) IN
    [self |-> Assigned(self, data, IF k = 0 THEN Len(SampleAttrs) ELSE k - 1),
     exc |-> IF k = 0 THEN NoException ELSE ReadError(k, data)]

\* station.py 72-85  Station.__init__, for data every read of which succeeds
Station(data) ==
    LET coords == <<data.lat.v, data.lon.v>>
        identity == [altitude |-> data.alt.v, coords |-> coords, distance |-> data.distance.v,
                     id |-> data.idema, name |-> data.ubi,
                     zoneinfo |-> timezone_from_coords(coords)]
        unset == [a \in {SampleAttrs[i] : i \in 1..Len(SampleAttrs)} |-> 0]
    IN  update_sample([a \in DOMAIN identity \cup DOMAIN unset |->
                          IF a \in DOMAIN identity THEN identity[a] ELSE unset[a]], data).self

(***************************************************************************)
(* station.py 183-196  Station.update_samples                              *)
(***************************************************************************)
\* the exception the timestamp of a sample raises in the loop (station.py 188)
StampError(sample) == ReadError(1, sample)

\* variant of Newer with a non-strict comparison
NewerOrEqual(dt, latest_dt) == dt.t >= latest_dt.t

\* station.py 189: dt > latest_dt
Newer(dt, latest_dt) == dt.t > latest_dt.t

\* the loop from sample i on; latest is 0 while latest_dt is None, else the place of latest
RECURSIVE LatestFrom(_, _, _)
LatestFrom(i, samples, latest) ==
    IF i > Len(samples) THEN latest
    ELSE LET dt == parse_api_timestamp(samples[i][AEMET_ATTR_STATION_DATE]) IN
         IF latest = 0 \/ Newer(dt, parse_api_timestamp(samples[latest][AEMET_ATTR_STATION_DATE]))
         THEN LatestFrom(i + 1, samples, i)
         ELSE LatestFrom(i + 1, samples, latest)

\* variant of Accepts without the upper bound
AcceptsFuture(cur, latest_dt, cur_dt) == cur.t < latest_dt.t

\* variant of Accepts without the lower bound
AcceptsOlder(cur, latest_dt, cur_dt) == latest_dt.t <= cur_dt

\* station.py 194: self.get_datetime() < latest_dt <= get_current_datetime()
Accepts(cur, latest_dt, cur_dt) == cur.t < latest_dt.t /\ latest_dt.t <= cur_dt

\* the record and the exception update_samples leaves; applied: update_sample was called
update_samples(self, samples, cur_dt) ==
    LET unchanged == [self |-> self, exc |-> NoException, applied |-> FALSE] IN
    IF \E i \in 1..Len(samples) : StampError(samples[i]) # NoException
    THEN LET k == CHOOSE i \in 1..Len(samples) :
                      /\ StampError(samples[i]) # NoException
                      /\ \A j \in 1..(i - 1) : StampError(samples[j]) = NoException
         IN  [unchanged EXCEPT !.exc = StampError(samples[k])]
    ELSE LET latest == LatestFrom(1, samples, 0) IN
         IF latest = 0 THEN unchanged
         ELSE IF Accepts(self.datetime,
                         parse_api_timestamp(samples[latest][AEMET_ATTR_STATION_DATE]), cur_dt)
              THEN LET r == update_sample(self, samples[latest]) IN
                   [self |-> r.self, exc |-> r.exc, applied |-> TRUE]
              ELSE unchanged

\* variant of Outdated with a non-strict comparison
OutdatedAtWindow(cur_dt, datetime) == cur_dt >= datetime.t + STATION_MAX_DELTA

\* station.py 119-122  Station.get_outdated
Outdated(cur_dt, datetime) == cur_dt > datetime.t + STATION_MAX_DELTA

(***************************************************************************)
(* The samples the model feeds to a station.                               *)
(***************************************************************************)
\* Observations come from two stations of the network: A on the mainland and B on
\* the Canary Islands.
Shapes == {"plain", "sea", "nohr", "badvmax", "badfint"}

\* the keys of an observation; pres_nmar is there for some stations only
SampleKeys ==
    {"fint", "tpr", "hr", "prec", "pres", "ta", "tamax", "tamin", "dv", "vv", "vmax",
     "idema", "ubi", "alt", "lat", "lon", "distance"}

\* the observation with timestamp dt whose measurements all read r, from station code:
\*   plain    every key but pres_nmar, all well formed
\*   sea      pres_nmar too, reading r + 10
\*   nohr     no hr key
\*   badvmax  vmax is not a number
\*   badfint  fint is not a timestamp
Sample(dt, r, shape, code) ==
    [k \in (SampleKeys \cup (IF shape = "sea" THEN {"pres_nmar"} ELSE {}))
           \ (IF shape = "nohr" THEN {"hr"} ELSE {}) |->
        CASE k = "fint" -> IF shape = "badfint" THEN Garbage ELSE Timestamp(dt)
          [] k = "vmax" -> IF shape = "badvmax" THEN Garbage ELSE Num(r)
          [] k = "pres_nmar" -> Num(r + 10)
          [] k = "idema" -> code
          [] k = "ubi" -> code
          [] k = "alt" -> Num(IF code = "A" THEN 600 ELSE 30)
          [] k = "lat" -> Num(IF code = "A" THEN 40 ELSE 28)
          [] k = "lon" -> Num(IF code = "A" THEN -3 ELSE -16)
          [] k = "distance" -> Num(0)
          [] OTHER -> Num(r)]

\* what a caller hands to update_sample: observations of station B reading 2
SingleSamples == {Sample(dt, 2, shape, "B") : dt \in Stamps, shape \in Shapes}

\* what a station is built from: well-formed observations of station A
ConstructionSamples == {Sample(dt, 1, "plain", "A") : dt \in Stamps}

\* the list with timestamps dts: odd places hold plain observations of station A reading 1,
\* even places sea-level ones of station B reading 2, and place bad (if any) has shape
SampleList(dts, bad, shape) ==
    [i \in 1..Len(dts) |->
        Sample(dts[i], IF i % 2 = 1 THEN 1 ELSE 2,
               IF i = bad THEN shape ELSE IF i % 2 = 1 THEN "plain" ELSE "sea",
               IF i % 2 = 1 THEN "A" ELSE "B")]

\* what a caller hands to update_samples (the value under ATTR_DATA), up to n samples
SampleListsUpTo(n) ==
    UNION {{SampleList(dts, bad, shape) : bad \in 0..Len(dts), shape \in {"nohr", "badfint"}} :
              dts \in SeqUpTo(Stamps, n)}

SampleLists == SampleListsUpTo(MaxSamples)

ShortSampleLists == SampleListsUpTo(MaxBatch)

(***************************************************************************)
(* Operations of Station.  seenMax, allMax and direct are history:         *)
(*   allMax   the latest timestamp update_sample ever stored               *)
(*   seenMax  the latest among those not after the clock when stored,      *)
(*            -1 while there is none                                       *)
(*   direct   update_sample was called by the caller since construction    *)
(***************************************************************************)
Stored(dt) ==
    /\ allMax' = Max(allMax, dt)
    /\ seenMax' = IF dt <= now THEN Max(seenMax, dt) ELSE seenMax

UpdateSample ==
    /\ pc = "idle"
    /\ \E data \in SingleSamples :
        LET r == update_sample(st, data) IN
        /\ Returns("update_sample", [data |-> data], [ret |-> None, exc |-> r.exc])
        /\ st' = r.self
        /\ IF FirstError(data) # 1
           THEN Stored(r.self.datetime.t) /\ direct' = TRUE
           ELSE UNCHANGED <<allMax, seenMax, direct>>
        /\ UNCHANGED <<aemetVars, now>>

\* keep: the call's record holds the list itself, not only its length
UpdateSamples(samples, keep) ==
    LET r == update_samples(st, samples, now) IN
    /\ pc = "idle"
    /\ Returns("update_samples",
               IF keep THEN [samples |-> samples] ELSE [samples |-> Len(samples)],
               [ret |-> None, exc |-> r.exc])
    /\ st' = r.self
    /\ IF r.applied
       THEN Stored(r.self.datetime.t)
       ELSE UNCHANGED <<allMax, seenMax>>
    /\ UNCHANGED <<aemetVars, now, direct>>

GetOutdated ==
    /\ pc = "idle"
    /\ Returns("get_outdated", <<>>,
               [ret |-> [t |-> "bool", v |-> Outdated(now, st.datetime)], exc |-> NoException])
    /\ UNCHANGED <<aemetVars, stationVars>>

\* time passes between calls
Tick ==
    /\ pc = "idle"
    /\ now < MaxStamp + 1
    /\ now' = now + 1
    /\ UNCHANGED <<callVars, aemetVars, st, seenMax, allMax, direct>>

(***************************************************************************)
(* Specifications.                                                         *)
(***************************************************************************)
InitCall ==
    /\ pc = "idle"
    /\ op = "none"
    /\ args = <<>>
    /\ ret = None
    /\ exc = NoException

\* interface.py 36-50  AEMET.__init__
InitAEMET ==
    /\ dist_hp = FALSE

\* station.py 72-85  Station.__init__ at some time of the clock
InitStation ==
    \E data \in ConstructionSamples : \E t0 \in Clock :
        /\ st = Station(data)
        /\ now = t0
        /\ allMax = data.fint.v
        /\ seenMax = IF data.fint.v <= t0 THEN data.fint.v ELSE -1
        /\ direct = FALSE

\* the station the client's specification leaves alone
InitOneStation ==
    /\ st = Station(Sample(0, 1, "plain", "A"))
    /\ now = 0
    /\ allMax = 0
    /\ seenMax = 0
    /\ direct = FALSE

\* the life of a station
Init == InitCall /\ InitAEMET /\ InitStation

Next ==
    \/ UpdateSample
    \/ (pc = "idle" /\ \E samples \in ShortSampleLists : UpdateSamples(samples, FALSE))
    \/ GetOutdated
    \/ Tick
    \/ Return

Spec == Init /\ [][Next]_vars

\* a station that only update_samples feeds, each call on record with its list
NextBatch ==
    \/ (pc = "idle" /\ \E samples \in SampleLists : UpdateSamples(samples, TRUE))
    \/ Tick
    \/ Return

SpecBatch == Init /\ [][NextBatch]_vars

\* the client
InitClient == InitCall /\ InitAEMET /\ InitOneStation

NextClient ==
    \/ ApiCall
    \/ DistanceHighPrecision
    \/ GetTownByCoordinates
    \/ GetConventionalObservationStationByCoordinates
    \/ GetClimatologicalValuesStationByCoordinates
    \/ Return

SpecClient == InitClient /\ [][NextClient]_vars

(***************************************************************************)
(* Properties of the client (SpecClient).                                  *)
(***************************************************************************)
LookupOps ==
    {"get_town_by_coordinates", "get_conventional_observation_station_by_coordinates",
     "get_climatological_values_station_by_coordinates"}

\* a nearest lookup has returned without raising
LookupDone == pc = "returned" /\ op \in LookupOps /\ exc = NoException

\* the candidate list the lookup scanned
Fetched ==
    IF op = "get_town_by_coordinates" THEN args.resps[1].body.v ELSE args.resps[2].body.v

\* the distance of candidate i of that list from the target of the lookup
FetchedDistance(i) ==
    calc_distance(dist_hp, args.search_coords,
                  CASE op = "get_town_by_coordinates" -> TownCoords(Fetched[i])
                    [] op = "get_conventional_observation_station_by_coordinates" ->
                           ConventionalCoords(Fetched[i])
                    [] OTHER -> ClimatologicalCoords(Fetched[i]))

Threshold ==
    IF op = "get_town_by_coordinates" THEN API_MIN_TOWN_DISTANCE_KM ELSE API_MIN_STATION_DISTANCE_KM

FetchFailed == \E k \in 1..Len(args.resps) : IsFailed(args.resps[k])

\* C2: a nearest lookup whose fetch failed returns None and raises nothing.
FetchFailureGivesNone ==
    (pc = "returned" /\ op \in LookupOps /\ FetchFailed) => (ret = None /\ exc = NoException)

\* C6: api_call with fetch_data returns None whenever one of its two requests failed,
\* never the metadata without the data.
FetchDataAllOrNothing ==
    (pc = "returned" /\ op = "api_call" /\ args.fetch_data /\ FetchFailed) => ret = None

\* C8: of several candidates at the minimal distance the lookup returns the first in list
\* order: no candidate before the returned one lies at the same distance.
FirstOfTiedWins ==
    (LookupDone /\ ret.t = "value") =>
        \A j \in 1..Len(Fetched) :
            FetchedDistance(j) = FetchedDistance(ret.v.id) => j >= ret.v.id

\* C8: a lookup returned a candidate that a later one ties with
FirstOfTiedWinsReached ==
    /\ LookupDone
    /\ ret.t = "value"
    /\ \E j \in 1..Len(Fetched) : j > ret.v.id /\ FetchedDistance(j) = FetchedDistance(ret.v.id)

(***************************************************************************)
(* Properties of a station (Spec, SpecBatch).                              *)
(***************************************************************************)
\* C3 as stated: the current timestamp is the latest among the samples ever stored that
\* were not in the future when stored (read in a state no failed call has just left, with
\* at least one such sample stored).
TimestampIsLatestSeen == (seenMax # -1 /\ exc = NoException) => st.datetime.t = seenMax

\* C3: while only update_samples has been called since construction, the current timestamp
\* is the latest among all the samples ever stored, the one of construction included.
TimestampIsLatestStored == ~direct => st.datetime.t = allMax

\* C3: update_samples has replaced the sample of construction by a later one
TimestampIsLatestStoredReached ==
    /\ pc = "returned"
    /\ op = "update_samples"
    /\ ~direct
    /\ exc = NoException
    /\ st.pressure = 12
    /\ st.datetime.t = MaxStamp

Stamp(sample) == sample[AEMET_ATTR_STATION_DATE].v

\* every timestamp of the list parses
StampsParse(samples) ==
    \A i \in 1..Len(samples) :
        /\ AEMET_ATTR_STATION_DATE \in DOMAIN samples[i]
        /\ samples[i][AEMET_ATTR_STATION_DATE].t = "ts"

\* the first place of the list that carries its maximum timestamp
FirstMax(samples) ==
    CHOOSE i \in 1..Len(samples) :
        /\ \A j \in 1..Len(samples) : Stamp(samples[j]) <= Stamp(samples[i])
        /\ \A j \in 1..(i - 1) : Stamp(samples[j]) < Stamp(samples[i])

\* every read of update_sample succeeds on the sample
WellFormed(sample) ==
    /\ {"fint", "tpr", "hr", "prec", "ta", "tamax", "tamin", "dv", "vv", "vmax"} \subseteq DOMAIN sample
    /\ ("pres" \in DOMAIN sample \/ "pres_nmar" \in DOMAIN sample)
    /\ \A k \in {"tpr", "hr", "prec", "ta", "tamax", "tamin", "dv", "vv", "vmax"} : sample[k].t = "num"
    /\ sample[IF "pres_nmar" \in DOMAIN sample THEN "pres_nmar" ELSE "pres"].t = "num"

\* the record new holds the sample: its timestamp and, when the sample is well formed, all
\* its measurements
Holds(new, sample) ==
    /\ new.datetime.t = Stamp(sample)
    /\ WellFormed(sample) =>
          /\ new.dew_point = sample.tpr.v
          /\ new.humidity = sample.hr.v
          /\ new.precipitation = sample.prec.v
          /\ new.pressure = sample[IF "pres_nmar" \in DOMAIN sample THEN "pres_nmar" ELSE "pres"].v
          /\ new.temp = sample.ta.v
          /\ new.temp_max = sample.tamax.v
          /\ new.temp_min = sample.tamin.v
          /\ new.wind_direction = sample.dv.v
          /\ new.wind_speed = sample.vv.v
          /\ new.wind_speed_max = sample.vmax.v

\* the step is a call of update_samples
BatchStep == pc = "idle" /\ pc' = "returned" /\ op' = "update_samples"

\* C4: update_samples applies the first sample of the list that carries its maximum
\* timestamp if that timestamp is later than the current one and not later than the clock,
\* and leaves every field of the record unchanged in every other case.
AppliesFirstLatest ==
    [][BatchStep =>
          LET samples == args'.samples IN
          IF /\ samples # <<>>
             /\ StampsParse(samples)
             /\ Stamp(samples[FirstMax(samples)]) > st.datetime.t
             /\ Stamp(samples[FirstMax(samples)]) <= now
          THEN Holds(st', samples[FirstMax(samples)])
          ELSE st' = st]_vars

\* C4: update_samples was given a list whose maximum timestamp two samples with different
\* measurements carry, and the record holds the first of them
AppliesFirstLatestReached ==
    /\ pc = "returned"
    /\ op = "update_samples"
    /\ exc = NoException
    /\ StampsParse(args.samples)
    /\ \E i, j \in 1..Len(args.samples) :
          /\ i < j
          /\ i = FirstMax(args.samples)
          /\ Stamp(args.samples[j]) = Stamp(args.samples[i])
          /\ args.samples[j].tpr.v # args.samples[i].tpr.v
          /\ WellFormed(args.samples[i])
          /\ Holds(st, args.samples[i])
          /\ st.datetime.t > 0

\* C5: get_outdated returns true exactly when the clock is past the current timestamp by
\* more than the staleness window, whatever the record went through before.
OutdatedIffPastWindow ==
    (pc = "returned" /\ op = "get_outdated") =>
        (ret.v <=> now - st.datetime.t >= STATION_MAX_DELTA + 1)

\* C5: get_outdated returned false exactly at the end of the window
OutdatedIffPastWindowReached ==
    /\ pc = "returned"
    /\ op = "get_outdated"
    /\ now = st.datetime.t + STATION_MAX_DELTA
    /\ ret.v = FALSE

Identity(self) ==
    [id |-> self.id, name |-> self.name, altitude |-> self.altitude, coords |-> self.coords,
     zoneinfo |-> self.zoneinfo]

\* C7: no step changes the identity fields the station got at construction.
IdentityIsKept == [][Identity(st') = Identity(st)]_vars

\* C7: update_sample has stored a sample that carries the id of another station
IdentityIsKeptReached ==
    /\ pc = "returned"
    /\ op = "update_sample"
    /\ exc = NoException
    /\ args.data.idema # st.id
    /\ "pres_nmar" \in DOMAIN args.data
    /\ st.pressure = args.data.pres_nmar.v

\* C9: an update that raises leaves the record as it was.
FailedUpdateChangesNothing ==
    [][(/\ pc = "idle"
        /\ pc' = "returned"
        /\ op' \in {"update_sample", "update_samples"}
        /\ exc' # NoException) => st' = st]_vars

\* C10: a call of update_samples never moves the current timestamp back, nor beyond the
\* later of its value before the call and the clock; no other step of a life made of
\* update_samples calls changes it.
BatchTimestampMonotone ==
    [][/\ st'.datetime.t >= st.datetime.t
       /\ st'.datetime.t <= Max(st.datetime.t, now)]_vars

\* C10: update_samples has moved the timestamp forward to the clock's time
BatchTimestampMonotoneReached ==
    /\ pc = "returned"
    /\ op = "update_samples"
    /\ st.datetime.t = now
    /\ st.pressure = 12
    /\ now = MaxStamp

====
